---- MODULE Spec2Model ----
(***************************************************************************)
(* Geospatial grid analysis of antropoceno-energetico.                     *)
(*                                                                         *)
(* Numbers.  Angles are integers in tenths of a degree (-3.7 deg is -37,   *)
(* 356.3 deg is 3563).  Powers and cell values are fixed-point integers    *)
(* with FIX units per W (resp. per W/m2), so that the division by the      *)
(* footprint area is a real division and not the identity.  Float arrays   *)
(* that may hold NaN are sequences of records [nan, val].                  *)
(* Indices reported by the program are 0-based, as in Python.              *)
(***************************************************************************)
EXTENDS Integers, Sequences, FiniteSets, TLC

VARIABLES pc, df, rf_power, ds, theme, last

vars == <<pc, df, rf_power, ds, theme, last>>

\* ---------------------------------------------------------------- bounds
MaxRows == 2           \* rows of an inventory table
NaNSpan == 3           \* the NaN cells of a climate field lie among its first NaNSpan cells

\* ------------------------------------------------------ program constants
LAT_START == -900      \* np.arange(-90, ...)
LAT_END == 900         \* np.arange(..., 90 + grid_resolution, ...)
LON_START == -1800     \* np.arange(-180, ...)
LON_END == 1800        \* np.arange(..., 180 + grid_resolution, ...)
AREA_KM2 == 1          \* area_km2 = 1.0
M2_PER_KM2 == 1000000  \* 1e6
MIN_POINTS == 10       \* if len(rf_valid) < 10
FULL_TURN == 3600      \* 360 degrees
HALF_TURN == 1800      \* 180 degrees
HEATMAP_MIN == 10      \* if np.sum(mask) > 10
KELVIN_OFFSET == 27315 \* datos - 273.15, in hundredths of a kelvin
HOURS_PER_DAY == 24    \* valid_time.dt.hour
DAY_START == 10        \* horas >= 10
DAY_END == 18          \* horas <= 18
NIGHT_START == 22      \* horas >= 22
NIGHT_END == 6         \* horas <= 6

\* fixed-point units per W and per W/m2: the divisor of the rasterizer, so
\* that whole watts divide exactly
FIX == AREA_KM2 * M2_PER_KM2

None == [kind |-> "None"]

\* ------------------------------------------------------------- arithmetic
\* a float: NaN or a number
NaN == [nan |-> TRUE, val |-> 0]

Num(v) == [nan |-> FALSE, val |-> v]

Abs(x) == IF x < 0 THEN -x ELSE x

Ceil(a, b) == IF b > 0 THEN -((-a) \div b) ELSE -(a \div (-b))

Max0(x) == IF x < 0 THEN 0 ELSE x

\* np.arange(start, stop, step) for step # 0
Arange(start, stop, step) ==
  [k \in 1..Max0(Ceil(stop - start, step)) |-> start + (k - 1) * step]

\* the absolute value left out
AbsDiffSigned(axis, q) == [k \in 1..Len(axis) |-> axis[k] - q]

\* np.abs(axis - q)
AbsDiff(axis, q) == [k \in 1..Len(axis) |-> Abs(axis[k] - q)]

\* the scan replacing the best index on an equal element too: the last of
\* several minima
RECURSIVE ArgminScanLast(_, _, _)
ArgminScanLast(a, k, best) ==
  IF k > Len(a) THEN best
  ELSE ArgminScanLast(a, k + 1, IF a[k] <= a[best] THEN k ELSE best)

\* np.argmin over a non-empty array: a left-to-right scan that replaces the
\* best index only on a strictly smaller element (1-based here)
RECURSIVE ArgminScan(_, _, _)
ArgminScan(a, k, best) ==
  IF k > Len(a) THEN best
  ELSE ArgminScan(a, k + 1, IF a[k] < a[best] THEN k ELSE best)

Argmin(a) == ArgminScan(a, 2, 1) - 1

\* -------------------------------------------------------------- ingestion
\* required_cols of load_rf_inventory
RequiredCols == {"frequency_hz", "power_w", "latitude", "longitude"}

\* RFClimateAnalyzer.load_rf_inventory on a CSV file with the given columns
\* and rows: None, after an error message in the log, when a required
\* column is missing, else the table
LoadRfInventoryOf(columns, rows) ==
  IF ~(RequiredCols \subseteq columns) THEN None ELSE rows

\* ------------------------------------------------------------ rasterizer
\* power_density[lat_idx, lon_idx] += row["power_w"] / (area_km2 * 1e6)
Contribution(row) == row.power_w \div (AREA_KM2 * M2_PER_KM2)

\* the cell assigned instead of incremented
AddAtOverwrite(grid, i, j, v) == [grid EXCEPT ![i + 1][j + 1] = v]

AddAt(grid, i, j, v) == [grid EXCEPT ![i + 1][j + 1] = @ + v]

RECURSIVE Accumulate(_, _, _, _)
Accumulate(grid, lats, lons, rows) ==
  IF rows = <<>> THEN grid
  ELSE LET row == Head(rows)
           lat_idx == Argmin(AbsDiff(lats, row.latitude))
           lon_idx == Argmin(AbsDiff(lons, row.longitude))
       IN Accumulate(AddAt(grid, lat_idx, lon_idx, Contribution(row)),
                     lats, lons, Tail(rows))

Zeros(n, m) == [i \in 1..n |-> [j \in 1..m |-> 0]]

\* RFClimateAnalyzer.calculate_rf_power_density
CalculateRfPowerDensity(table, grid_resolution) ==
  IF grid_resolution = 0 THEN [kind |-> "ZeroDivisionError"]
  ELSE LET lats == Arange(LAT_START, LAT_END + grid_resolution, grid_resolution)
           lons == Arange(LON_START, LON_END + grid_resolution, grid_resolution)
       IN IF table # <<>> /\ (lats = <<>> \/ lons = <<>>)
          THEN [kind |-> "ValueError"]
          ELSE [kind |-> "Dataset", latitude |-> lats, longitude |-> lons,
                rf_power_density |->
                  Accumulate(Zeros(Len(lats), Len(lons)), lats, lons, table)]

\* ------------------------------------------------- longitude conventions
\* a negative longitude shifted by half a turn only
LonEraHalfTurn(lon) == IF lon >= 0 THEN lon ELSE lon + HALF_TURN

\* dashboard_avanzado: lon_min_era = lon_min if lon_min >= 0 else lon_min + 360
LonEra(lon) == IF lon >= 0 THEN lon ELSE lon + FULL_TURN

\* comparacion_urbano_rural_corregido:
\* lon_normal = lon_real if lon_real <= 180 else lon_real - 360
LonNormal(lon_real) ==
  IF lon_real <= HALF_TURN THEN lon_real ELSE lon_real - FULL_TURN

\* ------------------------------------------------ nearest-cell extraction
\* the conversion adding the offset instead of subtracting it
KelvinToCelsiusAdding(datos) ==
  [t \in 1..Len(datos) |->
     IF datos[t].nan THEN NaN ELSE Num(datos[t].val + KELVIN_OFFSET)]

\* datos_celsius = datos - 273.15: a new array, NaN stays NaN
KelvinToCelsius(datos) ==
  [t \in 1..Len(datos) |->
     IF datos[t].nan THEN NaN ELSE Num(datos[t].val - KELVIN_OFFSET)]

\* ds["t2m"].isel(latitude=lat_idx, longitude=lon_idx): the values of one
\* cell along the time axis (0-based indices)
IselCell(d, lat_idx, lon_idx) ==
  [t \in 1..Len(d.valid_time) |-> d.t2m[t][lat_idx + 1][lon_idx + 1]]

\* the lookup converting a negative longitude to the unsigned convention
\* by itself
ExtraerConvirtiendo(d, lat, lon) ==
  LET lat_idx == Argmin(AbsDiff(d.latitude, lat))
      lon_idx == Argmin(AbsDiff(d.longitude,
                                IF lon >= 0 THEN lon ELSE lon + FULL_TURN))
  IN [datos_celsius |-> KelvinToCelsius(IselCell(d, lat_idx, lon_idx)),
      lat_idx |-> lat_idx, lon_idx |-> lon_idx,
      lat_real |-> d.latitude[lat_idx + 1],
      lon_real |-> d.longitude[lon_idx + 1],
      lat_target |-> lat, lon_target |-> lon]

\* extraer_serie_temporal: the two per-axis lookups, the series of the cell
\* in degrees Celsius and the metadata
ExtraerSerieTemporal(d, lat, lon) ==
  LET lat_idx == Argmin(AbsDiff(d.latitude, lat))
      lon_idx == Argmin(AbsDiff(d.longitude, lon))
  IN [datos_celsius |-> KelvinToCelsius(IselCell(d, lat_idx, lon_idx)),
      lat_idx |-> lat_idx, lon_idx |-> lon_idx,
      lat_real |-> d.latitude[lat_idx + 1],
      lon_real |-> d.longitude[lon_idx + 1],
      lat_target |-> lat, lon_target |-> lon]

\* ERA5Analyzer.extract_time_series(variable, lat, lon): the rows of the
\* DataFrame, column by column; a variable without valid_time has no such
\* attribute
ExtractTimeSeries(d, lat, lon) ==
  IF "valid_time" \notin DOMAIN d THEN [kind |-> "AttributeError"]
  ELSE LET lat_idx == Argmin(AbsDiff(d.latitude, lat))
           lon_idx == Argmin(AbsDiff(d.longitude, lon))
       IN [kind |-> "DataFrame", time |-> d.valid_time,
           value |-> IselCell(d, lat_idx, lon_idx),
           lat |-> d.latitude[lat_idx + 1], lon |-> d.longitude[lon_idx + 1]]

\* ------------------------------------------------------ day and night means
\* valid_time.dt.hour of a time stamp counted in hours
Hour(time) == time % HOURS_PER_DAY

\* the day test with open ends
EsDiaAbierto(h) == h > DAY_START /\ h < DAY_END

\* (horas >= 10) & (horas <= 18)
EsDia(h) == h >= DAY_START /\ h <= DAY_END

\* (horas >= 22) | (horas <= 6)
EsNoche(h) == h >= NIGHT_START \/ h <= NIGHT_END

\* DataArray.where(cond, drop=True): the samples where cond is True
Where(times, serie, cond) ==
  LET keep == SelectSeq([t \in 1..Len(times) |-> t], LAMBDA t : cond[t])
  IN [valid_time |-> [k \in 1..Len(keep) |-> times[keep[k]]],
      values |-> [k \in 1..Len(keep) |-> serie[keep[k]]]]

\* a NaN-skipping mean (DataArray.mean) as the pair of the sum and the
\* number of the valid values
RECURSIVE RowSum(_)
RowSum(row) ==
  IF row = <<>> THEN [sum |-> 0, count |-> 0]
  ELSE LET r == RowSum(Tail(row))
       IN IF Head(row).nan THEN r
          ELSE [sum |-> r.sum + Head(row).val, count |-> r.count + 1]

\* float(DataArray.mean()): the mean of the valid values as the fraction
\* sum / count, NaN when there is none
SerieMean(serie) ==
  LET r == RowSum(serie)
  IN IF r.count = 0 THEN [nan |-> TRUE, num |-> 0, den |-> 1]
     ELSE [nan |-> FALSE, num |-> r.sum, den |-> r.count]

\* main, plot 4: the day and night samples of a series and their means
AnalisisHorarioDe(times, madrid_series) ==
  LET horas == [t \in 1..Len(times) |-> Hour(times[t])]
      temp_dia == Where(times, madrid_series,
                        [t \in 1..Len(horas) |-> EsDia(horas[t])])
      temp_noche == Where(times, madrid_series,
                          [t \in 1..Len(horas) |-> EsNoche(horas[t])])
  IN [op |-> "analisis_horario", madrid_series |-> madrid_series,
      horas |-> horas,
      temp_dia |-> temp_dia, temp_noche |-> temp_noche,
      valores |-> <<SerieMean(temp_dia.values), SerieMean(temp_noche.values)>>]

\* ---------------------------------------------------------- interpolation
\* the interval of an ascending axis that holds t: the largest k with
\* axis[k] <= t, capped so that k + 1 is still an index
Bracket(axis, t) ==
  CHOOSE k \in 1..(Len(axis) - 1) :
    /\ axis[k] <= t
    /\ \/ t < axis[k + 1]
       \/ k = Len(axis) - 1

InRange(axis, t) == axis[1] <= t /\ t <= axis[Len(axis)]

Clamp(axis, t) ==
  IF t < axis[1] THEN axis[1]
  ELSE IF t > axis[Len(axis)] THEN axis[Len(axis)] ELSE t

\* the interpolation filling the outside with the nearest edge value
InterpAtNearestEdge(src, tlat, tlon) ==
  LET ct == Clamp(src.latitude, tlat)
      cn == Clamp(src.longitude, tlon)
      k == Bracket(src.latitude, ct)
      l == Bracket(src.longitude, cn)
      wk0 == src.latitude[k + 1] - ct
      wk1 == ct - src.latitude[k]
      wl0 == src.longitude[l + 1] - cn
      wl1 == cn - src.longitude[l]
      F == src.rf_power_density
  IN Num(F[k][l] * wk0 * wl0 + F[k][l + 1] * wk0 * wl1
         + F[k + 1][l] * wk1 * wl0 + F[k + 1][l + 1] * wk1 * wl1)

\* the interpolation with the two weights of each axis exchanged
InterpAtSwapped(src, tlat, tlon) ==
  IF ~InRange(src.latitude, tlat) \/ ~InRange(src.longitude, tlon) THEN NaN
  ELSE LET k == Bracket(src.latitude, tlat)
           l == Bracket(src.longitude, tlon)
           wk0 == tlat - src.latitude[k]
           wk1 == src.latitude[k + 1] - tlat
           wl0 == tlon - src.longitude[l]
           wl1 == src.longitude[l + 1] - tlon
           F == src.rf_power_density
       IN Num(F[k][l] * wk0 * wl0 + F[k][l + 1] * wk0 * wl1
              + F[k + 1][l] * wk1 * wl0 + F[k + 1][l + 1] * wk1 * wl1)

\* DataArray.interp(..., method="linear") at one target point: NaN outside
\* the source axes (no extrapolation), else the bilinear combination of the
\* four surrounding nodes.  The value is the numerator over the common
\* denominator (the square of the uniform source spacing).
InterpAt(src, tlat, tlon) ==
  IF ~InRange(src.latitude, tlat) \/ ~InRange(src.longitude, tlon) THEN NaN
  ELSE LET k == Bracket(src.latitude, tlat)
           l == Bracket(src.longitude, tlon)
           wk0 == src.latitude[k + 1] - tlat
           wk1 == tlat - src.latitude[k]
           wl0 == src.longitude[l + 1] - tlon
           wl1 == tlon - src.longitude[l]
           F == src.rf_power_density
       IN Num(F[k][l] * wk0 * wl0 + F[k][l + 1] * wk0 * wl1
              + F[k + 1][l] * wk1 * wl0 + F[k + 1][l + 1] * wk1 * wl1)

Interp(src, tlats, tlons) ==
  [i \in 1..Len(tlats) |-> [j \in 1..Len(tlons) |->
     InterpAt(src, tlats[i], tlons[j])]]

\* ndarray.flatten(): row-major
Flatten(m) ==
  IF m = <<>> THEN <<>>
  ELSE [k \in 1..(Len(m) * Len(m[1])) |->
          m[((k - 1) \div Len(m[1])) + 1][((k - 1) % Len(m[1])) + 1]]

\* ------------------------------------------------------------ correlation
\* the mask looking at the first series only
MaskFirstOnly(rf_flat, climate_flat) ==
  [k \in 1..Len(rf_flat) |-> ~rf_flat[k].nan]

\* mask = ~np.isnan(rf_flat) & ~np.isnan(climate_flat)
Mask(rf_flat, climate_flat) ==
  [k \in 1..Len(rf_flat) |-> ~rf_flat[k].nan /\ ~climate_flat[k].nan]

\* a[mask]: boolean-mask indexing
RECURSIVE Select(_, _)
Select(a, mask) ==
  IF a = <<>> THEN <<>>
  ELSE IF Head(mask) THEN <<Head(a).val>> \o Select(Tail(a), Tail(mask))
       ELSE Select(Tail(a), Tail(mask))

IsConstant(xs) == \A k \in 1..Len(xs) : xs[k] = xs[1]

\* np.corrcoef(x, y)[0, 1]: the covariance over the two standard deviations,
\* clipped to [-1, 1]; 0/0 = NaN when either series has zero variance
Corrcoef(xs, ys) ==
  IF IsConstant(xs) \/ IsConstant(ys) THEN [nan |-> TRUE, clipped |-> FALSE]
  ELSE [nan |-> FALSE, clipped |-> TRUE]

\* np.polyfit(x, y, 1): the x column of the design matrix is scaled by its
\* norm; an all-zero x makes that 0/0 and the least-squares solver then
\* either fails to converge (LinAlgError) or returns NaN, depending on the
\* LAPACK build
PolyfitOutcomes(xs) ==
  IF \A k \in 1..Len(xs) : xs[k] = 0 THEN {"LinAlgError", "ok"} ELSE {"ok"}

\* RFClimateAnalyzer.analyze_correlation: every outcome of one call
AnalyzeCorrelation(rf_data, climate_data) ==
  IF rf_data.latitude = <<>> \/ rf_data.longitude = <<>>
  THEN {[op |-> "analyze_correlation", ret |-> [kind |-> "Error"]]}
  ELSE LET rf_interp == Interp(rf_data, climate_data.latitude,
                               climate_data.longitude)
           rf_flat == Flatten(rf_interp)
           climate_flat == Flatten(climate_data.t2m)
           mask == Mask(rf_flat, climate_flat)
           rf_valid == Select(rf_flat, mask)
           climate_valid == Select(climate_flat, mask)
           locals == [op |-> "analyze_correlation", rf_flat |-> rf_flat,
                      climate_flat |-> climate_flat, rf_valid |-> rf_valid,
                      climate_valid |-> climate_valid]
       IN IF Len(rf_valid) < MIN_POINTS
          THEN {locals @@ [ret |-> None]}
          ELSE {locals @@ [ret |->
                  IF o = "ok"
                  THEN [kind |-> "results",
                        correlation_coefficient |-> Corrcoef(rf_valid, climate_valid),
                        n_points |-> Len(rf_valid)]
                  ELSE [kind |-> o]] : o \in PolyfitOutcomes(rf_valid)}

\* --------------------------------------------------- correlation matrix
\* the number of True elements of a mask: np.sum(mask)
RECURSIVE CountTrue(_)
CountTrue(mask) ==
  IF mask = <<>> THEN 0
  ELSE (IF Head(mask) THEN 1 ELSE 0) + CountTrue(Tail(mask))

\* create_heatmap_correlation, the body of the double loop: one entry
HeatmapEntry(data1, data2) ==
  LET mask == Mask(data1, data2)
  IN IF CountTrue(mask) > HEATMAP_MIN
     THEN Corrcoef(Select(data1, mask), Select(data2, mask))
     ELSE [nan |-> TRUE, clipped |-> FALSE]

\* create_heatmap_correlation(ds, variables): None for fewer than two
\* variables, else the matrix over every ordered pair, the diagonal included
CreateHeatmapCorrelation(d, variables) ==
  IF Len(variables) < 2 THEN None
  ELSE [kind |-> "matrix",
        corr_matrix |->
          [i \in 1..Len(variables) |-> [j \in 1..Len(variables) |->
             HeatmapEntry(Flatten(d[variables[i]]), Flatten(d[variables[j]]))]]]

\* dashboard_avanzado.main, tab 4: the list of pairwise correlations, one
\* record for every pair i < j with more than HEATMAP_MIN valid points
RECURSIVE PairList(_, _, _)
PairList(d, variables, k) ==
  LET n == Len(variables)
      i == ((k - 1) \div n) + 1
      j == ((k - 1) % n) + 1
      mask == Mask(Flatten(d[variables[i]]), Flatten(d[variables[j]]))
  IN IF k > n * n THEN <<>>
     ELSE (IF i < j /\ CountTrue(mask) > HEATMAP_MIN
           THEN <<[var1 |-> variables[i], var2 |-> variables[j],
                   corr |-> Corrcoef(Select(Flatten(d[variables[i]]), mask),
                                     Select(Flatten(d[variables[j]]), mask))]>>
           ELSE <<>>) \o PairList(d, variables, k + 1)

\* ---------------------------------------------------------------- gradient
\* a gradient value: NaN or the fraction num / den (den # 0, of either sign)
GradNaN == [nan |-> TRUE, num |-> 0, den |-> 1]

Frac(num, den) == [nan |-> FALSE, num |-> num, den |-> den]

\* np.diff(x) has one value only: np.gradient then takes the scalar spacing
IsUniform(x) == \A k \in 2..(Len(x) - 1) : x[k + 1] - x[k] = x[2] - x[1]

\* a first difference (f[b] - f[a]) / h
FirstDiff(f, a, b, h) ==
  IF f[a].nan \/ f[b].nan THEN GradNaN ELSE Frac(f[b].val - f[a].val, h)

\* the interior value as the plain central difference over x[i+1] - x[i-1]
InteriorCentral(f, x, i) == FirstDiff(f, i - 1, i + 1, x[i + 1] - x[i - 1])

\* np.gradient at an interior index i.  Scalar spacing h:
\* (f[i+1] - f[i-1]) / (2 h).  Array spacing, with hs = x[i] - x[i-1] and
\* hd = x[i+1] - x[i]: a f[i-1] + b f[i] + c f[i+1] where
\* a = -hd / (hs (hs + hd)), b = (hd - hs) / (hs hd), c = hs / (hd (hs + hd)),
\* here over the common denominator hs hd (hs + hd)
Interior(f, x, i) ==
  IF IsUniform(x) THEN FirstDiff(f, i - 1, i + 1, 2 * (x[2] - x[1]))
  ELSE LET hs == x[i] - x[i - 1]
           hd == x[i + 1] - x[i]
       IN IF f[i - 1].nan \/ f[i].nan \/ f[i + 1].nan THEN GradNaN
          ELSE Frac(hs * hs * f[i + 1].val + (hd * hd - hs * hs) * f[i].val
                      - hd * hd * f[i - 1].val,
                    hs * hd * (hs + hd))

\* the gradient dividing by the size of the spacing, whatever its direction
Gradient1DAbsSpacing(f, x) ==
  [i \in 1..Len(f) |->
     LET g == IF i = 1 THEN FirstDiff(f, 1, 2, x[2] - x[1])
              ELSE IF i = Len(f) THEN FirstDiff(f, i - 1, i, x[i] - x[i - 1])
              ELSE Interior(f, x, i)
     IN IF g.nan THEN g ELSE Frac(g.num, Abs(g.den))]

\* np.gradient(f, x) of a 1-D array with at least two elements (edge_order 1):
\* one-sided first differences at the two ends
Gradient1D(f, x) ==
  [i \in 1..Len(f) |->
     IF i = 1 THEN FirstDiff(f, 1, 2, x[2] - x[1])
     ELSE IF i = Len(f) THEN FirstDiff(f, i - 1, i, x[i] - x[i - 1])
     ELSE Interior(f, x, i)]

Column(m, j) == [i \in 1..Len(m) |-> m[i][j]]

\* np.gradient(values, x, axis=0) and (..., axis=1) of a 2-D array
GradientAxis0(m, x) ==
  [i \in 1..Len(m) |-> [j \in 1..Len(m[1]) |-> Gradient1D(Column(m, j), x)[i]]]

GradientAxis1(m, x) ==
  [i \in 1..Len(m) |-> [j \in 1..Len(m[1]) |-> Gradient1D(m[i], x)[j]]]

HasTime(d) == "valid_time" \in DOMAIN d

\* ERA5Analyzer.calculate_spatial_gradient(variable, time_idx).  The
\* magnitude is a square root: only whether it is NaN is kept.
CalculateSpatialGradient(d, time_idx) ==
  IF HasTime(d) /\ time_idx >= Len(d.valid_time) THEN [kind |-> "IndexError"]
  ELSE LET data == IF HasTime(d) THEN d.t2m[time_idx + 1] ELSE d.t2m
           lat_grad == GradientAxis0(data, d.latitude)
           lon_grad == GradientAxis1(data, d.longitude)
       IN [kind |-> "gradient", data |-> data,
           latitude_gradient |-> lat_grad,
           longitude_gradient |-> lon_grad,
           magnitude_nan |->
             [i \in 1..Len(data) |-> [j \in 1..Len(data[1]) |->
                lat_grad[i][j].nan \/ lon_grad[i][j].nan]]]

RECURSIVE CountProduct(_)
CountProduct(sums) ==
  IF sums = <<>> THEN 1
  ELSE (IF Head(sums).count = 0 THEN 1 ELSE Head(sums).count)
         * CountProduct(Tail(sums))

\* dashboard_avanzado.main, gradient expander: the north-south profile and
\* np.gradient(lat_profile.values, ds_loaded.latitude.values).  The profile
\* values are put over the common denominator scale (the product of the row
\* counts); a row without a valid value has a NaN mean.
LatDiff(d, selected_var) ==
  LET sums == [i \in 1..Len(d[selected_var]) |-> RowSum(d[selected_var][i])]
      scale == CountProduct(sums)
      lat_profile == [i \in 1..Len(sums) |->
                        IF sums[i].count = 0 THEN NaN
                        ELSE Num(sums[i].sum * (scale \div sums[i].count))]
      g == Gradient1D(lat_profile, d.latitude)
  IN [op |-> "lat_diff", selected_var |-> selected_var, scale |-> scale,
      lat_profile |-> lat_profile,
      lat_diff |-> [i \in 1..Len(g) |->
                      IF g[i].nan THEN g[i] ELSE Frac(g[i].num, g[i].den * scale)]]

\* ---------------------------------------------------------- extreme points
\* DataArray.mean(dim="valid_time"): the mean of the valid time steps of
\* every cell, NaN where there is none
MeanOverTime(d) ==
  [i \in 1..Len(d.latitude) |-> [j \in 1..Len(d.longitude) |->
     LET r == RowSum([t \in 1..Len(d.valid_time) |-> d.t2m[t][i][j]])
     IN IF r.count = 0 THEN NaN ELSE Num(r.sum \div r.count)]]

\* the order np.argpartition sorts by: NaN after every number
SortsAtOrAfter(a, b) == a.nan \/ (~b.nan /\ a.val >= b.val)

\* the index sets np.argpartition can leave in the last m places and in the
\* first m places: which of several equal values it takes is not specified
TopSets(values, m) ==
  {S \in SUBSET (1..Len(values)) :
     /\ Cardinality(S) = m
     /\ \A a \in S, b \in (1..Len(values)) \ S :
          SortsAtOrAfter(values[a], values[b])}

BottomSets(values, m) ==
  {S \in SUBSET (1..Len(values)) :
     /\ Cardinality(S) = m
     /\ \A a \in S, b \in (1..Len(values)) \ S :
          SortsAtOrAfter(values[b], values[a])}

\* the flat index unravelled column by column
PointRecordColumnMajor(d, values, type, idx) ==
  LET lat_idx == (idx - 1) % Len(d.latitude)
      lon_idx == (idx - 1) \div Len(d.latitude)
  IN [type |-> type, value |-> values[idx],
      latitude |-> d.latitude[lat_idx + 1],
      longitude |-> d.longitude[lon_idx + 1]]

\* the record of flat index idx (1-based): np.unravel_index(idx, shape) and
\* the meshgrid with indexing="ij"
PointRecord(d, values, type, idx) ==
  LET lat_idx == (idx - 1) \div Len(d.longitude)
      lon_idx == (idx - 1) % Len(d.longitude)
  IN [type |-> type, value |-> values[idx],
      latitude |-> d.latitude[lat_idx + 1],
      longitude |-> d.longitude[lon_idx + 1]]

\* ERA5Analyzer.find_extreme_points(variable, n_points): every outcome.
\* argpartition(values, -n)[-n:] and argpartition(values, n)[:n] with
\* Python's slices: for n = 0 the first slice is the whole array and the
\* second is empty, for n < 0 both leave out |n| elements; kth outside
\* [-size, size) is a ValueError.  The records of each group are a set: the
\* order argpartition leaves them in is not specified.
FindExtremePoints(d, n_points) ==
  LET values == Flatten(IF HasTime(d) THEN MeanOverTime(d) ELSE d.t2m)
      size == Len(values)
      n_max == IF n_points > 0 THEN n_points
               ELSE IF n_points = 0 THEN size ELSE size + n_points
      n_min == IF n_points > 0 THEN n_points
               ELSE IF n_points = 0 THEN 0 ELSE size + n_points
  IN IF ~(-size <= -n_points /\ -n_points < size)
        \/ ~(-size <= n_points /\ n_points < size)
     THEN {[kind |-> "ValueError"]}
     ELSE {[kind |-> "DataFrame",
            max_points |-> {PointRecord(d, values, "max", idx) : idx \in S},
            min_points |-> {PointRecord(d, values, "min", idx) : idx \in T}] :
             S \in TopSets(values, n_max), T \in BottomSets(values, n_min)}

\* -------------------------------------------------------------- statistics
\* values[~np.isnan(values)]
DropNaN(values) == Select(values, [k \in 1..Len(values) |-> ~values[k].nan])

RECURSIVE Insert(_, _)
Insert(v, sorted) ==
  IF sorted = <<>> THEN <<v>>
  ELSE IF v <= Head(sorted) THEN <<v>> \o sorted
       ELSE <<Head(sorted)>> \o Insert(v, Tail(sorted))

\* the values in ascending order, as np.median and np.percentile see them
RECURSIVE Sorted(_)
Sorted(vs) == IF vs = <<>> THEN <<>> ELSE Insert(Head(vs), Sorted(Tail(vs)))

RECURSIVE Total(_)
Total(vs) == IF vs = <<>> THEN 0 ELSE Head(vs) + Total(Tail(vs))

Squares(vs) == [k \in 1..Len(vs) |-> vs[k] * vs[k]]

\* np.mean of a non-empty array, as a fraction
Mean(vs) == Frac(Total(vs), Len(vs))

\* np.std (ddof = 0) of a non-empty array: the fraction is the variance
\* (n sum(x^2) - sum(x)^2) / n^2, the standard deviation is its square root
Variance(vs) ==
  Frac(Len(vs) * Total(Squares(vs)) - Total(vs) * Total(vs), Len(vs) * Len(vs))

\* np.percentile(vs, 25 q) for q quarters, linear interpolation between the
\* two closest ranks: position q (n - 1) / 4 in the sorted array
Quartile(vs, q) ==
  LET sorted == Sorted(vs)
      lo == (q * (Len(vs) - 1)) \div 4
      rem == (q * (Len(vs) - 1)) % 4
  IN IF rem = 0 THEN Frac(4 * sorted[lo + 1], 4)
     ELSE Frac(4 * sorted[lo + 1] + rem * (sorted[lo + 2] - sorted[lo + 1]), 4)

\* the positions of an axis that .sel(axis=slice(a, b)) keeps: the labels
\* from a to b in the direction of the axis, nothing when a and b are given
\* against it
SelSlice(axis, a, b) ==
  IF Len(axis) >= 2 /\ axis[1] > axis[2]
  THEN SelectSeq([k \in 1..Len(axis) |-> k], LAMBDA k : axis[k] <= a /\ axis[k] >= b)
  ELSE SelectSeq([k \in 1..Len(axis) |-> k], LAMBDA k : axis[k] >= a /\ axis[k] <= b)

\* data.sel(latitude=slice(lat_max, lat_min), longitude=slice(lon_min, lon_max))
\* of one 2-D array
CropField(d, m, region) ==
  LET rows == SelSlice(d.latitude, region.lat_max, region.lat_min)
      cols == SelSlice(d.longitude, region.lon_min, region.lon_max)
  IN [i \in 1..Len(rows) |-> [j \in 1..Len(cols) |-> m[rows[i]][cols[j]]]]

\* dashboard sidebar: ds.sel({lat_dim: slice(lat_max, lat_min),
\* lon_dim: slice(lon_min_era, lon_max_era)}); the axes that remain
CropAxes(d, lat_min, lat_max, lon_min_era, lon_max_era) ==
  LET rows == SelSlice(d.latitude, lat_max, lat_min)
      cols == SelSlice(d.longitude, lon_min_era, lon_max_era)
  IN [latitude |-> [i \in 1..Len(rows) |-> d.latitude[rows[i]]],
      longitude |-> [j \in 1..Len(cols) |-> d.longitude[cols[j]]]]

\* data.values.flatten() of the 2-D or 3-D variable, cropped if a region is given
FlatValues(d, region) ==
  LET crop(m) == IF region = None THEN m ELSE CropField(d, m, region)
  IN IF HasTime(d)
     THEN Flatten(crop(d.t2m[1])) \o Flatten(crop(d.t2m[2]))
     ELSE Flatten(crop(d.t2m))

\* the stats dictionary of calculate_statistics over the NaN-free values:
\* on an empty array np.mean and np.std warn and give NaN, np.min raises
\* ValueError (zero-size array to reduction operation minimum)
StatsOf(vs) ==
  IF vs = <<>> THEN [kind |-> "ValueError"]
  ELSE [kind |-> "stats", mean |-> Mean(vs), std |-> Variance(vs),
        min |-> Frac(Sorted(vs)[1], 1), max |-> Frac(Sorted(vs)[Len(vs)], 1),
        median |-> Quartile(vs, 2), q25 |-> Quartile(vs, 1),
        q75 |-> Quartile(vs, 3), count |-> Len(vs)]

\* ERA5Analyzer.calculate_statistics(variable, region)
CalculateStatistics(d, region) == StatsOf(DropNaN(FlatValues(d, region)))

HasNaN(values) == \E k \in 1..Len(values) : values[k].nan

\* dashboard_avanzado.main, the exported stats_dict: the xarray reductions
\* skip NaN (NaN when nothing is left), np.percentile and np.median of the
\* raw flattened array do not and give NaN as soon as one value is NaN
StatsDict(d, selected_var) ==
  LET flat == Flatten(d[selected_var])
      vs == DropNaN(flat)
      raw == [k \in 1..Len(flat) |-> flat[k].val]
  IN [op |-> "stats_dict", selected_var |-> selected_var,
      mean |-> IF vs = <<>> THEN GradNaN ELSE Mean(vs),
      std |-> IF vs = <<>> THEN GradNaN ELSE Variance(vs),
      min |-> IF vs = <<>> THEN GradNaN ELSE Frac(Sorted(vs)[1], 1),
      max |-> IF vs = <<>> THEN GradNaN ELSE Frac(Sorted(vs)[Len(vs)], 1),
      q25 |-> IF HasNaN(flat) THEN GradNaN ELSE Quartile(raw, 1),
      median |-> IF HasNaN(flat) THEN GradNaN ELSE Quartile(raw, 2),
      q75 |-> IF HasNaN(flat) THEN GradNaN ELSE Quartile(raw, 3)]

\* ------------------------------------------------------------------ inputs
\* inventory rows: two transmitters around Madrid that share a cell, the
\* first one again with its longitude in the unsigned convention, and one
\* east of the prime meridian
Madrid == [latitude |-> 404, longitude |-> -37, power_w |-> 5 * FIX]

Getafe == [latitude |-> 401, longitude |-> -35, power_w |-> 7 * FIX]

MadridUnsigned == [latitude |-> 404, longitude |-> 3563, power_w |-> 5 * FIX]

Barcelona == [latitude |-> 414, longitude |-> 22, power_w |-> 3 * FIX]

PointPool == {Madrid, Getafe, MadridUnsigned, Barcelona}

Tables == UNION {[1..n -> PointPool] : n \in 0..MaxRows}

Resolutions == {-450, 0, 500, 900}

\* the columns of the inventory file: the six of the example file, the four
\* required ones, and files without frequency_hz, without power_w and
\* without latitude
ColumnSets ==
  {{"frequency_hz", "power_w", "latitude", "longitude", "height_m", "type"},
   {"frequency_hz", "power_w", "latitude", "longitude"},
   {"power_w", "latitude", "longitude"},
   {"frequency_hz", "latitude", "longitude", "type"},
   {"frequency_hz", "power_w", "longitude"}}

\* climate fields on grids of two latitudes, descending as in ERA5, and six
\* signed or seven unsigned longitudes; the values are constant or a ramp,
\* and some of the first cells are NaN
ClimateLats == <<450, 350>>

ClimateLons ==
  {<<-100, -50, 0, 50, 100, 150>>,
   <<0, 50, 100, 150, 200, 250, 3563>>}

ClimateCells(lons) == 1..(Len(ClimateLats) * Len(lons))

ClimateValue(pattern, k) == IF pattern = "const" THEN 280 ELSE 270 + k

ClimateField(lons, pattern, nans) ==
  [i \in 1..Len(ClimateLats) |-> [j \in 1..Len(lons) |->
     IF ((i - 1) * Len(lons) + j) \in nans THEN NaN
     ELSE Num(ClimateValue(pattern, (i - 1) * Len(lons) + j))]]

ClimateDatasetsOn(lons) ==
  {[latitude |-> ClimateLats, longitude |-> lons,
    t2m |-> ClimateField(lons, p, nans)] :
     p \in {"const", "ramp"},
     nans \in SUBSET (ClimateCells(lons) \cap 1..NaNSpan)}

\* a climate field on the very axes of the RF grid of resolution 90 degrees:
\* every target is a node of that grid, and none is a node of the grid of
\* resolution 50 degrees
NodeClimate ==
  [latitude |-> <<-900, 0, 900>>,
   longitude |-> <<-1800, -900, 0, 900, 1800>>,
   t2m |-> [i \in 1..3 |-> [j \in 1..5 |->
              Num(ClimateValue("ramp", (i - 1) * 5 + j))]]]

ClimateDatasets ==
  UNION {ClimateDatasetsOn(lons) : lons \in ClimateLons} \cup {NodeClimate}

\* grids the extraction scripts read: a small ascending grid, ERA5-like grids
\* (latitude descending, longitude unsigned) global and regional, and a
\* signed regional grid
Era5Grids ==
  {[latitude |-> <<100, 200, 300>>, longitude |-> <<0, 100, 200>>],
   [latitude |-> <<450, 400, 350>>, longitude |-> <<0, 900, 1800, 2700>>],
   [latitude |-> <<450, 400, 350>>, longitude |-> <<3550, 3560, 3570>>],
   [latitude |-> <<450, 400, 350>>, longitude |-> <<3560, 3570, 3580>>],
   [latitude |-> <<450, 400, 350>>, longitude |-> <<-100, -50, 0, 50>>]}

\* time axes in hours since the first midnight: one day hourly, a day and a
\* half every six hours, and the hours of one day that are neither day nor
\* night
Era5Times ==
  {[t \in 1..24 |-> t - 1],
   <<0, 6, 12, 18, 24, 30>>,
   <<7, 8, 9, 19, 20, 21>>}

\* t2m in hundredths of a kelvin: warmer to the south-east and around noon;
\* with a gap, the first cell has no value at the second time step
Era5T2m(g, times, gap) ==
  [t \in 1..Len(times) |-> [i \in 1..Len(g.latitude) |->
     [j \in 1..Len(g.longitude) |->
        IF gap /\ t = 2 /\ i = 1 /\ j = 1 THEN NaN
        ELSE Num(28000 + 100 * i + 10 * j
                   - 5 * Abs(Hour(times[t]) - 12))]]]

Era5Datasets ==
  {g @@ [valid_time |-> times, t2m |-> Era5T2m(g, times, gap)] :
     g \in Era5Grids, times \in Era5Times, gap \in BOOLEAN}

QueryLats == {150, 210, 404, 950}

QueryLons == {-37, 40, 50, 3563}

SliderLons == {-1800, -100, -37, 0, 50, 1799, 1800}

\* the latitude slider at its default, 35 to 45
SliderLats == <<350, 450>>

\* the grids of the file the sidebar opens: latitudes from north to south,
\* longitudes in [0, 360) on both sides of the prime meridian
SidebarGrids ==
  {[latitude |-> <<500, 450, 400, 350, 300>>,
    longitude |-> <<0, 50, 100, 1700, 3500, 3550>>],
   [latitude |-> <<450, 400>>, longitude |-> <<0, 900, 1800, 2700>>]}

\* what the dashboard loads: two variables on a grid of three latitudes and
\* four longitudes.  The latitude axis descends or ascends, evenly spaced or
\* not; t2m is constant or grows with the flattened index, d2m grows; each
\* variable has its own NaN cells among the first NaNSpan cells.
DashLats == {<<450, 400, 350>>, <<100, 200, 300>>, <<10, 20, 40>>, <<40, 20, 10>>}

DashLons == <<0, 10, 20, 30>>

DashField(pattern, nans) ==
  [i \in 1..3 |-> [j \in 1..Len(DashLons) |->
     IF ((i - 1) * Len(DashLons) + j) \in nans THEN NaN
     ELSE Num(ClimateValue(pattern, (i - 1) * Len(DashLons) + j))]]

DashDatasets ==
  {[latitude |-> lats, longitude |-> DashLons,
    t2m |-> DashField(p, n1), d2m |-> DashField("ramp", n2)] :
     lats \in DashLats, p \in {"const", "ramp"},
     n1 \in SUBSET (1..NaNSpan), n2 \in SUBSET (1..NaNSpan)}

\* two of the options of the sidebar's theme selectbox, the first being the
\* one selected when the dashboard starts
Themes == {"plotly", "plotly_dark"}

\* the names a file gives its latitude and longitude dimensions: ERA5's, and
\* those of the example dataset of generar_datos_ejemplo
AxisNamings == {{"latitude", "longitude"}, {"lat", "lon"}}

\* what the multiselect of tab 4 can hold
VarSelections == {<<"t2m">>, <<"t2m", "d2m">>, <<"d2m", "t2m">>}

\* what ERA5Analyzer loads: t2m on three latitudes and four longitudes,
\* with or without a time dimension of two steps.  The axes ascend or
\* descend, evenly spaced or not; the values grow with the flattened index
\* or go up and down with equal values in several cells, the second time
\* step is 2 above the first; the NaN cells lie among the first NaNSpan cells.
AnalyzerAxes ==
  {[latitude |-> <<450, 400, 350>>, longitude |-> <<0, 10, 20, 30>>],
   [latitude |-> <<10, 20, 40>>, longitude |-> <<0, 10, 30, 60>>],
   [latitude |-> <<40, 20, 10>>, longitude |-> <<60, 30, 10, 0>>],
   [latitude |-> <<100, 200, 300>>, longitude |-> <<3560, 3570, 3580, 3590>>]}

AnalyzerValue(pattern, k) ==
  IF pattern = "ramp" THEN 270 + k ELSE 270 + ((5 * k) % 7)

AnalyzerField(pattern, nans, step) ==
  [i \in 1..3 |-> [j \in 1..4 |->
     IF ((i - 1) * 4 + j) \in nans THEN NaN
     ELSE Num(AnalyzerValue(pattern, (i - 1) * 4 + j) + 2 * step)]]

AnalyzerTimes == <<0, 12>>

AnalyzerDatasets ==
  {a @@ [t2m |-> AnalyzerField(p, nans, 0)] :
     a \in AnalyzerAxes, p \in {"ramp", "wave"},
     nans \in SUBSET (1..NaNSpan)}
  \cup
  {a @@ [valid_time |-> AnalyzerTimes,
         t2m |-> <<AnalyzerField(p, nans, 0), AnalyzerField(p, {}, 1)>>] :
     a \in AnalyzerAxes, p \in {"ramp", "wave"},
     nans \in SUBSET (1..NaNSpan)}

TimeIndices == {0, 1, 2}

\* n_points: the values around 0, the default 5, and the values around the
\* number of cells
ExtremeCounts == {-1, 0, 1, 2, 5, 11, 12, 13}

\* region of calculate_statistics: none, the north-west of the ERA5-like
\* grid, its first row without the last longitude, a box around the uneven
\* grids, and a box that holds no grid point
Regions ==
  {None,
   [lat_min |-> 380, lat_max |-> 460, lon_min |-> 0, lon_max |-> 15],
   [lat_min |-> 440, lat_max |-> 460, lon_min |-> 0, lon_max |-> 25],
   [lat_min |-> 5, lat_max |-> 25, lon_min |-> 0, lon_max |-> 40],
   [lat_min |-> 500, lat_max |-> 600, lon_min |-> 0, lon_max |-> 40]}

SelectedVars == {"t2m", "d2m"}

\* the points extract_time_series is asked for
AnalyzerPoints == {<<150, -37>>, <<404, 15>>, <<404, 3563>>}

\* ------------------------------------------------------------ axis names
\* sidebar: next((d for d in candidates if d in dims), None)
ResolveDim(candidates, dims) ==
  LET found == {k \in 1..Len(candidates) : candidates[k] \in dims}
  IN IF found = {} THEN "None"
     ELSE candidates[CHOOSE k \in found : \A m \in found : k <= m]

\* create_spatial_map(ds, variable, time_idx) on a dataset without time axis
\* whose dimensions are named dims: the contour figure of the variable
CreateSpatialMap(d, dims, variable, template) ==
  IF "latitude" \notin dims \/ "longitude" \notin dims THEN None
  ELSE [kind |-> "Figure", z |-> d[variable], x |-> d.longitude,
        y |-> d.latitude, template |-> template]

\* ------------------------------------------------- arguments after a call
\* the table a caller holds after calculate_rf_power_density: iterrows hands
\* each row out as a new Series, which the loop only reads
TableAfterPopping(table) == IF table = <<>> THEN table ELSE Tail(table)

TableAfterRasterize(table) == table

\* the dataset a caller holds after analyze_correlation or a method of
\* ERA5Analyzer: interp, mean, sel and isel build new arrays, .values.flatten()
\* and boolean indexing copy, and corrcoef, polyfit, gradient, argpartition,
\* percentile and median leave their argument as it is
DatasetAfterCall(d) == d

\* ----------------------------------------------------------------- actions
NoCall == [op |-> "none"]

AfterGradient == pc = "returned" /\ last.op = "calculate_spatial_gradient"

Init ==
  /\ pc = "start"
  /\ df = None
  /\ rf_power = None
  /\ ds = None
  /\ theme = "plotly"
  /\ last = NoCall

\* analisis_rf_clima.main step 2: the inventory is loaded; without a table
\* main logs the failure and returns
LoadRfInventory ==
  /\ pc = "start"
  /\ \E columns \in ColumnSets, t \in Tables :
       /\ df' = LoadRfInventoryOf(columns, t)
       /\ last' = [op |-> "load_rf_inventory", columns |-> columns]
  /\ pc' = IF RequiredCols \subseteq last'.columns THEN "inventory"
           ELSE "no_inventory"
  /\ UNCHANGED <<rf_power, ds, theme>>

\* main step 3: calculate_rf_power_density; an exception ends the script
Rasterize ==
  /\ pc = "inventory"
  /\ \E res \in Resolutions :
       /\ rf_power' = CalculateRfPowerDensity(df, res)
       /\ last' = [op |-> "calculate_rf_power_density", grid_resolution |-> res]
  /\ pc' = IF rf_power'.kind = "Dataset" THEN "rasterized" ELSE "failed"
  /\ df' = TableAfterRasterize(df)
  /\ UNCHANGED <<ds, theme>>

\* main step 4: load_climate_data
LoadClimateData ==
  /\ pc = "rasterized"
  /\ \E d \in ClimateDatasets : ds' = d
  /\ pc' = "climate"
  /\ UNCHANGED <<df, rf_power, last, theme>>

\* main step 5: analyze_correlation(rf_power, climate_data, "t2m")
Correlate ==
  /\ pc = "climate"
  /\ \E r \in AnalyzeCorrelation(rf_power, ds) : last' = r
  /\ pc' = IF last'.ret.kind \in {"None", "results"} THEN "done" ELSE "failed"
  /\ rf_power' = DatasetAfterCall(rf_power)
  /\ ds' = DatasetAfterCall(ds)
  /\ UNCHANGED <<df, theme>>

\* comparacion_urbano_rural[_corregido].main: xr.open_dataset
OpenDataset ==
  /\ pc = "start"
  /\ \E d \in Era5Datasets : ds' = d
  /\ pc' = "opened"
  /\ UNCHANGED <<df, rf_power, last, theme>>

\* one iteration of the loop over puntos
Extraer ==
  /\ pc \in {"opened", "extracted", "reported"}
  /\ \E lat \in QueryLats, lon \in QueryLons :
       last' = ExtraerSerieTemporal(ds, lat, lon) @@ [op |-> "extraer_serie_temporal"]
  /\ pc' = "extracted"
  /\ UNCHANGED <<df, rf_power, ds, theme>>

\* comparacion_urbano_rural_corregido.main: the reported longitude
Resultado ==
  /\ pc = "extracted"
  /\ last' = [lon_normal |-> LonNormal(last.lon_real)] @@ last
  /\ pc' = "reported"
  /\ UNCHANGED <<df, rf_power, ds, theme>>

\* dashboard_avanzado sidebar: the file is opened, the sliders are read, the
\* longitudes are converted and the dataset is cropped
SelectRegion ==
  /\ pc \in {"start", "region"}
  /\ \E lon_min \in SliderLons, lon_max \in SliderLons, g \in SidebarGrids :
       /\ lon_min <= lon_max
       /\ last' = [op |-> "region", lon_min |-> lon_min, lon_max |-> lon_max,
                   lon_min_era |-> LonEra(lon_min),
                   lon_max_era |-> LonEra(lon_max),
                   lat_min |-> SliderLats[1], lat_max |-> SliderLats[2],
                   latitude |-> g.latitude, longitude |-> g.longitude,
                   ds_cropped |->
                     CropAxes(g, SliderLats[1], SliderLats[2],
                              LonEra(lon_min), LonEra(lon_max))]
  /\ pc' = "region"
  /\ UNCHANGED <<df, rf_power, ds, theme>>

\* dashboard_avanzado.main: ds_loaded = load_era5_data(...)
LoadEra5Data ==
  /\ pc = "start"
  /\ \E d \in DashDatasets : ds' = d
  /\ pc' = "loaded"
  /\ UNCHANGED <<df, rf_power, last, theme>>

\* tab 1: the sidebar has resolved the dimension names of the file, the map
\* of the selected variable is drawn
TabMapa ==
  /\ pc = "loaded"
  /\ \E dims \in AxisNamings, selected_var \in SelectedVars :
       last' = [op |-> "create_spatial_map", dims |-> dims,
                lat_dim |-> ResolveDim(<<"latitude", "lat">>, dims),
                lon_dim |-> ResolveDim(<<"longitude", "lon">>, dims),
                variable |-> selected_var,
                ret |-> CreateSpatialMap(ds, dims, selected_var, theme)]
  /\ pc' = "shown"
  /\ UNCHANGED <<df, rf_power, ds, theme>>

\* tab 4: the heat map and the list of pairwise correlations, for two or
\* more selected variables
TabCorrelaciones ==
  /\ pc = "loaded"
  /\ \E variables \in VarSelections :
       /\ Len(variables) >= 2
       /\ last' = [op |-> "create_heatmap_correlation",
                   variables |-> variables,
                   ret |-> CreateHeatmapCorrelation(ds, variables),
                   template |-> theme,
                   correlations |-> PairList(ds, variables, 1)]
  /\ pc' = "shown"
  /\ UNCHANGED <<df, rf_power, ds, theme>>

\* the sidebar's theme selectbox is changed while tab 4 is shown: the script
\* runs again with the same dataset and the same selection, and tab 4 draws
\* the figure again; `before' keeps the figure of the previous run
SelectTheme ==
  /\ pc = "shown"
  /\ last.op = "create_heatmap_correlation"
  /\ \E t \in Themes : theme' = t
  /\ last' = [op |-> "create_heatmap_correlation",
              variables |-> last.variables,
              ret |-> CreateHeatmapCorrelation(ds, last.variables),
              template |-> theme',
              correlations |-> PairList(ds, last.variables, 1),
              before |-> [ret |-> last.ret, template |-> last.template]]
  /\ pc' = "reshown"
  /\ UNCHANGED <<df, rf_power, ds>>

\* dashboard gradient expander: the derivative of the north-south profile
TabGradiente ==
  /\ pc = "loaded"
  /\ \E selected_var \in SelectedVars : last' = LatDiff(ds, selected_var)
  /\ pc' = "shown"
  /\ UNCHANGED <<df, rf_power, ds, theme>>

\* analyzer = ERA5Analyzer(filepath); the calls that follow share its
\* dataset.  The model follows a first call, and any second call after a
\* gradient.
NewAnalyzer ==
  /\ pc = "start"
  /\ \E d \in AnalyzerDatasets : ds' = d
  /\ pc' = "analyzer"
  /\ UNCHANGED <<df, rf_power, last, theme>>

\* analyzer.calculate_spatial_gradient("t2m", time_idx)
CallSpatialGradient ==
  /\ pc = "analyzer" \/ AfterGradient
  /\ \E time_idx \in TimeIndices :
       last' = [op |-> "calculate_spatial_gradient", time_idx |-> time_idx,
                ret |-> CalculateSpatialGradient(ds, time_idx)]
  /\ pc' = "returned"
  /\ ds' = DatasetAfterCall(ds)
  /\ UNCHANGED <<df, rf_power, theme>>

\* analyzer.find_extreme_points("t2m", n_points)
CallFindExtremePoints ==
  /\ pc = "analyzer" \/ AfterGradient
  /\ \E n_points \in ExtremeCounts :
       \E r \in FindExtremePoints(ds, n_points) :
         last' = [op |-> "find_extreme_points", n_points |-> n_points, ret |-> r]
  /\ pc' = "returned"
  /\ ds' = DatasetAfterCall(ds)
  /\ UNCHANGED <<df, rf_power, theme>>

\* analyzer.calculate_statistics("t2m", region)
CallCalculateStatistics ==
  /\ pc = "analyzer" \/ AfterGradient
  /\ \E region \in Regions :
       last' = [op |-> "calculate_statistics", region |-> region,
                ret |-> CalculateStatistics(ds, region)]
  /\ pc' = "returned"
  /\ ds' = DatasetAfterCall(ds)
  /\ UNCHANGED <<df, rf_power, theme>>

\* dashboard export column: the statistics record offered for download
ExportarEstadisticas ==
  /\ pc = "loaded"
  /\ \E selected_var \in SelectedVars : last' = StatsDict(ds, selected_var)
  /\ pc' = "shown"
  /\ UNCHANGED <<df, rf_power, ds, theme>>

\* comparacion_urbano_rural_corregido.main, plot 4: day against night for
\* the series extracted last
AnalisisHorario ==
  /\ pc = "reported"
  /\ last' = AnalisisHorarioDe(ds.valid_time, last.datos_celsius)
  /\ pc' = "horario"
  /\ UNCHANGED <<df, rf_power, ds, theme>>

\* analyzer.extract_time_series("t2m", lat, lon)
CallExtractTimeSeries ==
  /\ pc = "analyzer" \/ AfterGradient
  /\ \E q \in AnalyzerPoints :
       last' = [op |-> "extract_time_series", lat |-> q[1], lon |-> q[2],
                ret |-> ExtractTimeSeries(ds, q[1], q[2])]
  /\ pc' = "returned"
  /\ ds' = DatasetAfterCall(ds)
  /\ UNCHANGED <<df, rf_power, theme>>

Next ==
  \/ LoadRfInventory
  \/ Rasterize
  \/ LoadClimateData
  \/ Correlate
  \/ OpenDataset
  \/ Extraer
  \/ Resultado
  \/ SelectRegion
  \/ LoadEra5Data
  \/ TabMapa
  \/ TabCorrelaciones
  \/ SelectTheme
  \/ TabGradiente
  \/ NewAnalyzer
  \/ CallSpatialGradient
  \/ CallFindExtremePoints
  \/ CallCalculateStatistics
  \/ ExportarEstadisticas
  \/ AnalisisHorario
  \/ CallExtractTimeSeries

Spec == Init /\ [][Next]_vars

\* =================================================================== claims
\* i (0-based) is a nearest index of axis to q, and the lowest such index
IsNearest(axis, q, i) ==
  /\ i \in 0..(Len(axis) - 1)
  /\ \A k \in 1..Len(axis) : Abs(axis[i + 1] - q) <= Abs(axis[k] - q)
  /\ \A k \in 1..i : Abs(axis[k] - q) > Abs(axis[i + 1] - q)

RECURSIVE SumOver(_, _)
SumOver(S, f) ==
  IF S = {} THEN 0
  ELSE LET k == CHOOSE x \in S : TRUE IN f[k] + SumOver(S \ {k}, f)

\* the rows of the inventory whose nearest cell is (i, j), 1-based
RowsAt(i, j) ==
  {k \in 1..Len(df) :
     /\ IsNearest(rf_power.latitude, df[k].latitude, i - 1)
     /\ IsNearest(rf_power.longitude, df[k].longitude, j - 1)}

Cells == (1..Len(rf_power.latitude)) \X (1..Len(rf_power.longitude))

\* C1 as stated: every cell of the rasterized grid holds the sum of the
\* values (power_w) of the point sources resolving to it, 0 where there are
\* none: powers 5 and 7 in one cell give 12.
C1_CellIsSumOfValues ==
  pc = "rasterized" =>
    \A c \in Cells :
      rf_power.rf_power_density[c[1]][c[2]] =
        SumOver(RowsAt(c[1], c[2]), [k \in 1..Len(df) |-> df[k].power_w])

\* C1 amended: every cell holds the sum of power_w / (area_km2 * 1e6) over the
\* point sources resolving to it, and exactly 0 where there are none: powers
\* 5 and 7 in one cell give 12e-6.
C1_CellIsSumOfDensities ==
  pc = "rasterized" =>
    \A c \in Cells :
      rf_power.rf_power_density[c[1]][c[2]] =
        SumOver(RowsAt(c[1], c[2]),
                [k \in 1..Len(df) |-> df[k].power_w \div (AREA_KM2 * M2_PER_KM2)])

\* powers 5 W and 7 W share a cell, which holds 12e-6, and a third source in
\* another cell leaves it so
C1_Witness ==
  /\ pc = "rasterized"
  /\ \E c \in Cells :
       /\ Cardinality(RowsAt(c[1], c[2])) = 2
       /\ rf_power.rf_power_density[c[1]][c[2]] = 12
       /\ \E e \in Cells : e # c /\ rf_power.rf_power_density[e[1]][e[2]] = 0

\* C2: each returned index minimises the absolute difference on its own
\* axis, the lowest index winning a tie; latitudes [10,20,30], longitudes
\* [0,10,20] and the query (21, 4) give (1, 0).
C2_PerAxisNearest ==
  last.op = "extraer_serie_temporal" =>
    /\ IsNearest(ds.latitude, last.lat_target, last.lat_idx)
    /\ IsNearest(ds.longitude, last.lon_target, last.lon_idx)
    /\ (ds.latitude = <<100, 200, 300>> /\ ds.longitude = <<0, 100, 200>>
        /\ last.lat_target = 210 /\ last.lon_target = 40)
         => (last.lat_idx = 1 /\ last.lon_idx = 0)
    /\ (ds.latitude = <<100, 200, 300>> /\ last.lat_target = 150)
         => last.lat_idx = 0

\* the example query resolved to (1, 0)
C2_Witness ==
  /\ last.op = "extraer_serie_temporal"
  /\ ds.latitude = <<100, 200, 300>> /\ ds.longitude = <<0, 100, 200>>
  /\ last.lat_target = 210 /\ last.lon_target = 40
  /\ last.lat_idx = 1 /\ last.lon_idx = 0

\* the positions where both flattened series are valid
ValidPairs ==
  {k \in 1..Len(last.rf_flat) : ~last.rf_flat[k].nan /\ ~last.climate_flat[k].nan}

Correlated == last.op = "analyze_correlation" /\ "rf_flat" \in DOMAIN last

\* C3: with fewer than 10 valid pairs correlate returns None, with 10 or more
\* it returns a numeric result.
C3_ThresholdTen ==
  Correlated =>
    /\ Cardinality(ValidPairs) < 10 => last.ret = None
    /\ Cardinality(ValidPairs) >= 10 => last.ret.kind = "results"

InSigned(lon) == -HALF_TURN <= lon /\ lon < HALF_TURN

InUnsigned(lon) == 0 <= lon /\ lon < FULL_TURN

Reported == last.op = "extraer_serie_temporal" /\ "lon_normal" \in DOMAIN last

\* C4 as stated: every signed longitude in [-180, 180) converted to the
\* unsigned convention and back is the original, and every unsigned
\* longitude in [0, 360) converted to signed and back is the original.
C4_RoundTrip ==
  /\ last.op = "region" =>
       /\ InSigned(last.lon_min) => LonNormal(last.lon_min_era) = last.lon_min
       /\ InSigned(last.lon_max) => LonNormal(last.lon_max_era) = last.lon_max
  /\ (Reported /\ InUnsigned(last.lon_real)) =>
       LonEra(last.lon_normal) = last.lon_real

\* C4 amended: the round trip returns the original for every signed
\* longitude in [-180, 180) except -180 itself, which comes back as +180, and
\* for every unsigned longitude in [0, 360).
C4_RoundTripButMinus180 ==
  /\ last.op = "region" =>
       /\ InUnsigned(last.lon_min_era) /\ InUnsigned(last.lon_max_era)
       /\ (InSigned(last.lon_min) /\ last.lon_min # -HALF_TURN)
            => LonNormal(last.lon_min_era) = last.lon_min
       /\ (InSigned(last.lon_max) /\ last.lon_max # -HALF_TURN)
            => LonNormal(last.lon_max_era) = last.lon_max
       /\ last.lon_min = -HALF_TURN => LonNormal(last.lon_min_era) = HALF_TURN
  /\ (Reported /\ InUnsigned(last.lon_real)) =>
       LonEra(last.lon_normal) = last.lon_real

\* -3.7 was converted to 356.3, which converts back to -3.7
C4_Witness ==
  /\ last.op = "region"
  /\ last.lon_min = -37
  /\ last.lon_min_era = 3563
  /\ LonNormal(last.lon_min_era) = -37

\* the longitude axis is in the unsigned convention
UnsignedAxis(axis) == \A k \in 1..Len(axis) : InUnsigned(axis[k])

\* the index (0-based) of the axis value nearest 0
EdgeNearestZero(axis) ==
  CHOOSE i \in 0..(Len(axis) - 1) : \A k \in 1..Len(axis) : axis[i + 1] <= axis[k]

CrossConvention ==
  /\ last.op = "extraer_serie_temporal"
  /\ UnsignedAxis(ds.longitude)
  /\ last.lon_target < 0

\* C5 as stated: a negative signed longitude looked up on an unsigned axis
\* without conversion gets the edge index nearest 0, and that index differs
\* from the one the converted longitude gets.
C5_RawDiffersFromConverted ==
  CrossConvention =>
    /\ last.lon_idx = EdgeNearestZero(ds.longitude)
    /\ ~IsNearest(ds.longitude, last.lon_target + FULL_TURN, last.lon_idx)

\* C5 amended: such a lookup gets the edge index nearest 0, which differs
\* from the index of the converted longitude whenever the converted
\* longitude is closer to some other axis value than to that edge value.
C5_RawIsEdge ==
  CrossConvention =>
    /\ last.lon_idx = EdgeNearestZero(ds.longitude)
    /\ (\E k \in 1..Len(ds.longitude) :
          Abs(ds.longitude[k] - (last.lon_target + FULL_TURN))
            < Abs(ds.longitude[last.lon_idx + 1] - (last.lon_target + FULL_TURN)))
         => ~IsNearest(ds.longitude, last.lon_target + FULL_TURN, last.lon_idx)

\* -3.7 on the global unsigned axis resolves to index 0 (0 deg), where 356.3
\* resolves to index 3 (270 deg)
C5_Witness ==
  /\ CrossConvention
  /\ ds.longitude = <<0, 900, 1800, 2700>>
  /\ last.lon_target = -37
  /\ last.lon_idx = 0
  /\ IsNearest(ds.longitude, 3563, 3)

\* the target coordinate of flattened cell k of the climate grid
TargetLat(k) == ds.latitude[((k - 1) \div Len(ds.longitude)) + 1]

TargetLon(k) == ds.longitude[((k - 1) % Len(ds.longitude)) + 1]

Outside(axis, t) ==
  \/ \A k \in 1..Len(axis) : t < axis[k]
  \/ \A k \in 1..Len(axis) : t > axis[k]

\* C6: a target coordinate whose latitude or longitude lies outside the
\* source grid's axis range gets NaN from the interpolation.
C6_NoExtrapolation ==
  Correlated =>
    \A k \in 1..Len(last.rf_flat) :
      (Outside(rf_power.latitude, TargetLat(k))
         \/ Outside(rf_power.longitude, TargetLon(k)))
        => last.rf_flat[k].nan

\* a target at 356.3 deg on a source grid that contains transmitters and
\* ends at 180 deg got NaN
C6_Witness ==
  /\ Correlated
  /\ df # <<>>
  /\ \E k \in 1..Len(last.rf_flat) :
       /\ TargetLon(k) = 3563
       /\ Outside(rf_power.longitude, TargetLon(k))
       /\ last.rf_flat[k].nan

\* the inventory with every longitude in the signed convention
SignedTable(t) ==
  [k \in 1..Len(t) |-> [t[k] EXCEPT !.longitude = LonNormal(t[k].longitude)]]

\* C7: a point given with an unsigned longitude is accumulated into the cell
\* of the equivalent signed longitude, so the rasterized grid equals the grid
\* of the same inventory given in the signed convention.
C7_ConvertsBeforeResolving ==
  pc = "rasterized" =>
    rf_power = CalculateRfPowerDensity(SignedTable(df), last.grid_resolution)

\* C8: a query outside the axis range is resolved to the edge index on that
\* side, and the rasterizer never fails on a grid of positive resolution.
C8_ClampsToEdge ==
  /\ last.op = "extraer_serie_temporal" =>
       /\ Outside(ds.latitude, last.lat_target) =>
            /\ last.lat_idx \in {0, Len(ds.latitude) - 1}
            /\ \A k \in 1..Len(ds.latitude) :
                 Abs(last.lat_real - last.lat_target)
                   <= Abs(ds.latitude[k] - last.lat_target)
       /\ Outside(ds.longitude, last.lon_target) =>
            /\ last.lon_idx \in {0, Len(ds.longitude) - 1}
            /\ \A k \in 1..Len(ds.longitude) :
                 Abs(last.lon_real - last.lon_target)
                   <= Abs(ds.longitude[k] - last.lon_target)
  /\ (pc \in {"rasterized", "failed"} /\ last.op = "calculate_rf_power_density"
      /\ last.grid_resolution > 0) =>
       /\ pc = "rasterized"
       /\ \A k \in 1..Len(df) :
            df[k].longitude > rf_power.longitude[Len(rf_power.longitude)] =>
              \E i \in 1..Len(rf_power.latitude) :
                rf_power.rf_power_density[i][Len(rf_power.longitude)] > 0

\* latitude 95 on the descending axis [45, 40, 35] resolved to index 0 and
\* longitude 356.3 on the axis [-10, -5, 0, 5] to the last index
C8_Witness ==
  /\ last.op = "extraer_serie_temporal"
  /\ ds.latitude = <<450, 400, 350>> /\ ds.longitude = <<-100, -50, 0, 50>>
  /\ last.lat_target = 950 /\ last.lat_idx = 0
  /\ last.lon_target = 3563 /\ last.lon_idx = 3

\* the i-th valid position, counted from 1
KthValid(i) ==
  CHOOSE k \in ValidPairs : Cardinality({j \in ValidPairs : j <= k}) = i

\* C9: position k enters the correlation iff both series are valid at k; the
\* sample count is the number of such positions and the two filtered series
\* hold the values of those positions, in order.
C9_PairwiseRemoval ==
  Correlated =>
    /\ Len(last.rf_valid) = Cardinality(ValidPairs)
    /\ Len(last.climate_valid) = Cardinality(ValidPairs)
    /\ \A i \in 1..Cardinality(ValidPairs) :
         /\ last.rf_valid[i] = last.rf_flat[KthValid(i)].val
         /\ last.climate_valid[i] = last.climate_flat[KthValid(i)].val
    /\ last.ret.kind = "results" => last.ret.n_points = Cardinality(ValidPairs)

\* a climate NaN and an interpolation NaN at different positions were both
\* dropped and the sample count 10 was reported
C9_Witness ==
  /\ Correlated
  /\ last.ret.kind = "results"
  /\ last.ret.n_points = 10
  /\ \E k \in 1..Len(last.rf_flat) :
       last.rf_flat[k].nan /\ ~last.climate_flat[k].nan
  /\ \E k \in 1..Len(last.rf_flat) :
       ~last.rf_flat[k].nan /\ last.climate_flat[k].nan

\* C10: with 10 or more valid pairs correlate returns a coefficient that is
\* not NaN and lies in [-1, 1], also for constant fields.
C10_CoefficientInRange ==
  (Correlated /\ Cardinality(ValidPairs) >= 10) =>
    /\ last.ret.kind = "results"
    /\ ~last.ret.correlation_coefficient.nan
    /\ last.ret.correlation_coefficient.clipped

\* the valid pairs of variables i and j of the loaded dataset
PairMask(i, j) ==
  Mask(Flatten(ds[last.variables[i]]), Flatten(ds[last.variables[j]]))

HeatmapShown == pc = "shown" /\ last.op = "create_heatmap_correlation"

\* C11 as stated: every entry of the correlation matrix is what pairwise
\* correlation gives for the two fields: NaN when the pair has fewer than 10
\* valid points, and the coefficient of the valid points otherwise.
C11_MatrixIsPairwiseCorrelate ==
  HeatmapShown =>
    \A i \in 1..Len(last.variables), j \in 1..Len(last.variables) :
      LET mask == PairMask(i, j)
          entry == last.ret.corr_matrix[i][j]
      IN /\ CountTrue(mask) < MIN_POINTS => entry.nan
         /\ CountTrue(mask) >= MIN_POINTS =>
              entry = Corrcoef(Select(Flatten(ds[last.variables[i]]), mask),
                               Select(Flatten(ds[last.variables[j]]), mask))

\* the sign of a gradient value that is not NaN
Sign(g) ==
  IF g.num = 0 THEN 0 ELSE IF (g.num > 0) = (g.den > 0) THEN 1 ELSE -1

\* a 1-D array without NaN whose values grow with the index
GrowsWithIndex(f) ==
  \A i \in 1..(Len(f) - 1) : ~f[i].nan /\ ~f[i + 1].nan /\ f[i].val < f[i + 1].val

InteriorOf(f) == 2..(Len(f) - 1)

GradientReturned ==
  pc = "returned" /\ last.op = "calculate_spatial_gradient"
    /\ last.ret.kind = "gradient"

LatDiffShown == pc = "shown" /\ last.op = "lat_diff"

\* C12 as stated, the field growing along the axis in array order: the
\* gradient along that axis is positive at every interior point, whether the
\* coordinate values of the axis ascend or descend.
C12_PositiveOnEveryAxis ==
  /\ GradientReturned =>
       /\ \A j \in 1..Len(ds.longitude) :
            GrowsWithIndex(Column(last.ret.data, j)) =>
              \A i \in InteriorOf(ds.latitude) :
                Sign(last.ret.latitude_gradient[i][j]) = 1
       /\ \A i \in 1..Len(ds.latitude) :
            GrowsWithIndex(last.ret.data[i]) =>
              \A j \in InteriorOf(ds.longitude) :
                Sign(last.ret.longitude_gradient[i][j]) = 1
  /\ LatDiffShown /\ GrowsWithIndex(last.lat_profile) =>
       \A i \in InteriorOf(ds.latitude) : Sign(last.lat_diff[i]) = 1

\* 1 on an axis whose coordinate values ascend, -1 on one where they descend
Direction(x) == IF x[1] < x[2] THEN 1 ELSE -1

\* C12 amended: the gradient is taken with respect to the coordinate values.
\* For a field growing along the axis in array order it is, at every interior
\* point, positive on an ascending axis and negative on a descending one,
\* evenly spaced or not; it is positive exactly when the field grows with the
\* coordinate.
C12_SignFollowsAxisDirection ==
  /\ GradientReturned =>
       /\ \A j \in 1..Len(ds.longitude) :
            GrowsWithIndex(Column(last.ret.data, j)) =>
              \A i \in InteriorOf(ds.latitude) :
                /\ ~last.ret.latitude_gradient[i][j].nan
                /\ Sign(last.ret.latitude_gradient[i][j]) = Direction(ds.latitude)
       /\ \A i \in 1..Len(ds.latitude) :
            GrowsWithIndex(last.ret.data[i]) =>
              \A j \in InteriorOf(ds.longitude) :
                /\ ~last.ret.longitude_gradient[i][j].nan
                /\ Sign(last.ret.longitude_gradient[i][j]) = Direction(ds.longitude)
  /\ LatDiffShown /\ GrowsWithIndex(last.lat_profile) =>
       \A i \in InteriorOf(ds.latitude) :
         /\ ~last.lat_diff[i].nan
         /\ Sign(last.lat_diff[i]) = Direction(ds.latitude)

\* on the ERA5-like grid (latitude descending, longitude ascending) a field
\* growing with both indices got a negative latitude gradient and a positive
\* longitude gradient at an interior point
C12_Witness ==
  /\ GradientReturned
  /\ ds.latitude = <<450, 400, 350>>
  /\ GrowsWithIndex(Column(last.ret.data, 2))
  /\ GrowsWithIndex(last.ret.data[2])
  /\ Sign(last.ret.latitude_gradient[2][2]) = -1
  /\ Sign(last.ret.longitude_gradient[2][2]) = 1

\* the gradient value g is the fraction num / den
IsFrac(g, num, den) == ~g.nan /\ g.num * den = num * g.den

\* the three values around index i of f are numbers
ValidAround(f, i) == ~f[i - 1].nan /\ ~f[i].nan /\ ~f[i + 1].nan

\* g is the gradient of f over x at both ends: the one-sided differences
OneSidedAtEnds(g, f, x) ==
  LET n == Len(f)
  IN /\ ~f[1].nan /\ ~f[2].nan =>
          IsFrac(g[1], f[2].val - f[1].val, x[2] - x[1])
     /\ ~f[n - 1].nan /\ ~f[n].nan =>
          IsFrac(g[n], f[n].val - f[n - 1].val, x[n] - x[n - 1])

\* g is the central difference of f over x at every interior index
CentralInside(g, f, x) ==
  \A i \in InteriorOf(f) :
    ValidAround(f, i) =>
      IsFrac(g[i], f[i + 1].val - f[i - 1].val, x[i + 1] - x[i - 1])

\* g is the spacing-weighted difference of f over x at every interior index,
\* with hs = x[i] - x[i-1] and hd = x[i+1] - x[i]:
\* (hs^2 (f[i+1] - f[i]) + hd^2 (f[i] - f[i-1])) / (hs hd (hs + hd))
WeightedInside(g, f, x) ==
  \A i \in InteriorOf(f) :
    ValidAround(f, i) =>
      LET hs == x[i] - x[i - 1]
          hd == x[i + 1] - x[i]
      IN /\ IsFrac(g[i],
                   hs * hs * (f[i + 1].val - f[i].val)
                     + hd * hd * (f[i].val - f[i - 1].val),
                   hs * hd * (hs + hd))
         /\ hs = hd =>
              IsFrac(g[i], f[i + 1].val - f[i - 1].val, x[i + 1] - x[i - 1])

\* C13 as stated: along each axis the gradient is the central difference
\* (f[i+1] - f[i-1]) / (x[i+1] - x[i-1]) at every interior index and the
\* one-sided difference at the two ends, also for uneven spacing.
C13_CentralDifference ==
  GradientReturned =>
    /\ \A j \in 1..Len(ds.longitude) :
         LET g == Column(last.ret.latitude_gradient, j)
             f == Column(last.ret.data, j)
         IN OneSidedAtEnds(g, f, ds.latitude) /\ CentralInside(g, f, ds.latitude)
    /\ \A i \in 1..Len(ds.latitude) :
         LET g == last.ret.longitude_gradient[i]
             f == last.ret.data[i]
         IN OneSidedAtEnds(g, f, ds.longitude) /\ CentralInside(g, f, ds.longitude)

\* C13 amended: one-sided differences at the two ends; at an interior index
\* the difference weighted by the two neighbouring spacings, which is the
\* central difference where the two spacings are equal.
C13_WeightedDifference ==
  GradientReturned =>
    /\ \A j \in 1..Len(ds.longitude) :
         LET g == Column(last.ret.latitude_gradient, j)
             f == Column(last.ret.data, j)
         IN OneSidedAtEnds(g, f, ds.latitude) /\ WeightedInside(g, f, ds.latitude)
    /\ \A i \in 1..Len(ds.latitude) :
         LET g == last.ret.longitude_gradient[i]
             f == last.ret.data[i]
         IN OneSidedAtEnds(g, f, ds.longitude) /\ WeightedInside(g, f, ds.longitude)

\* latitudes 1, 2 and 4 degrees with values 274, 278 and 282 down a column:
\* the interior gradient is 1/3 per tenth of a degree, the central
\* difference would be 8/30
C13_Witness ==
  /\ GradientReturned
  /\ ds.latitude = <<10, 20, 40>>
  /\ Column(last.ret.data, 4) = <<Num(274), Num(278), Num(282)>>
  /\ IsFrac(last.ret.latitude_gradient[2][4], 1, 3)
  /\ ~IsFrac(last.ret.latitude_gradient[2][4], 8, 30)

\* the field find_extreme_points looks at, flattened, and its valid cells
ExtremeValues == Flatten(IF HasTime(ds) THEN MeanOverTime(ds) ELSE ds.t2m)

ValidCells == {k \in 1..Len(ExtremeValues) : ~ExtremeValues[k].nan}

ExtremesCalled == pc = "returned" /\ last.op = "find_extreme_points"

\* the values of the cells that have no record in the group
ValuesOutside(group) ==
  {ExtremeValues[k] : k \in {c \in 1..Len(ExtremeValues) :
     \A r \in group :
       <<r.latitude, r.longitude>> # <<TargetLat(c), TargetLon(c)>>}}

\* C14 as stated, for 1 <= n < the number of valid cells: there are n max and
\* n min records, every max value is >= every value not selected as max and
\* every min value is <= every value not selected as min.
C14_LargestAndSmallest ==
  ExtremesCalled /\ 1 <= last.n_points /\ last.n_points < Cardinality(ValidCells) =>
    /\ last.ret.kind = "DataFrame"
    /\ Cardinality(last.ret.max_points) = last.n_points
    /\ Cardinality(last.ret.min_points) = last.n_points
    /\ \A r \in last.ret.max_points, v \in ValuesOutside(last.ret.max_points) :
         ~r.value.nan /\ (~v.nan => r.value.val >= v.val)
    /\ \A r \in last.ret.min_points, v \in ValuesOutside(last.ret.min_points) :
         ~r.value.nan /\ (~v.nan => r.value.val <= v.val)

\* C15 as stated: for n < 1 or n >= the number of valid cells the call fails
\* and returns no records, and a returned result always has n max and n min
\* records.
C15_RejectsBadCount ==
  ExtremesCalled =>
    /\ last.n_points < 1 \/ last.n_points >= Cardinality(ValidCells) =>
         last.ret.kind # "DataFrame"
    /\ last.ret.kind = "DataFrame" =>
         /\ Cardinality(last.ret.max_points) = last.n_points
         /\ Cardinality(last.ret.min_points) = last.n_points

StatsCalled == pc = "returned" /\ last.op = "calculate_statistics"

StatsExported == pc = "shown" /\ last.op = "stats_dict"

\* the flattened array the statistics are taken of
StatsInput ==
  IF StatsCalled THEN FlatValues(ds, last.region) ELSE Flatten(ds[last.selected_var])

\* the positions of its values that are not NaN
ValidPositions == {k \in 1..Len(StatsInput) : ~StatsInput[k].nan}

StatNames == {"mean", "std", "min", "max", "median", "q25", "q75"}

\* C16 as stated: with no valid value left the call fails with
\* EmptyDataError, and a returned record has a positive count and no NaN
\* statistic.
C16_EmptyDataError ==
  StatsCalled =>
    /\ ValidPositions = {} => last.ret.kind = "EmptyDataError"
    /\ last.ret.kind = "stats" =>
         /\ last.ret.count > 0
         /\ \A name \in StatNames : ~last.ret[name].nan

\* the value of rank r (1 the smallest) among the valid values
OrderStat(r) ==
  LET v == [k \in ValidPositions |-> StatsInput[k].val]
      p == CHOOSE k \in ValidPositions :
             /\ Cardinality({q \in ValidPositions : v[q] < v[k]}) < r
             /\ r <= Cardinality({q \in ValidPositions : v[q] <= v[k]})
  IN v[p]

\* four times the quartile q of the valid values
FourQuartiles(q) ==
  LET lo == (q * (Cardinality(ValidPositions) - 1)) \div 4
      rem == (q * (Cardinality(ValidPositions) - 1)) % 4
  IN IF rem = 0 THEN 4 * OrderStat(lo + 1)
     ELSE (4 - rem) * OrderStat(lo + 1) + rem * OrderStat(lo + 2)

\* the record r holds the statistics of the valid values alone
OverValidOnly(r) ==
  LET n == Cardinality(ValidPositions)
      v == [k \in 1..Len(StatsInput) |-> StatsInput[k].val]
      sq == [k \in 1..Len(StatsInput) |-> v[k] * v[k]]
      sum == SumOver(ValidPositions, v)
  IN /\ IsFrac(r.mean, sum, n)
     /\ IsFrac(r.std, n * SumOver(ValidPositions, sq) - sum * sum, n * n)
     /\ IsFrac(r.min, OrderStat(1), 1)
     /\ IsFrac(r.max, OrderStat(n), 1)
     /\ IsFrac(r.q25, FourQuartiles(1), 4)
     /\ IsFrac(r.median, FourQuartiles(2), 4)
     /\ IsFrac(r.q75, FourQuartiles(3), 4)

\* C17 as stated: wherever a statistics record is produced, by
\* calculate_statistics or by the dashboard export, its mean, std, min, max,
\* median, Q25 and Q75 are those of the valid values alone and the count is
\* their number.
C17_NaNFilteredEverywhere ==
  /\ StatsCalled /\ last.ret.kind = "stats" =>
       /\ OverValidOnly(last.ret)
       /\ last.ret.count = Cardinality(ValidPositions)
  /\ StatsExported /\ ValidPositions # {} => OverValidOnly(last)

Extracted == pc = "extracted" /\ last.op = "extraer_serie_temporal"

SeriesReturned ==
  pc = "returned" /\ last.op = "extract_time_series" /\ last.ret.kind = "DataFrame"

\* serie holds, for every time step in order, the value of the one cell
\* (i, j) (0-based) of the source plus offset, NaN where the source has none
IsCellSeries(serie, i, j, offset) ==
  /\ Len(serie) = Len(ds.valid_time)
  /\ \A t \in 1..Len(ds.valid_time) :
       LET source == ds.t2m[t][i + 1][j + 1]
       IN IF source.nan THEN serie[t].nan
          ELSE serie[t] = Num(source.val + offset)

\* C18: the extracted series has one value per time step, in time order,
\* each the source value at the one nearest cell plus the unit offset
\* (-273.15 in extraer_serie_temporal, none in extract_time_series), and
\* the call leaves the source dataset as it was.
C18_SeriesOfResolvedCell ==
  /\ [](Extracted =>
          \E i \in 0..(Len(ds.latitude) - 1), j \in 0..(Len(ds.longitude) - 1) :
            /\ IsNearest(ds.latitude, last.lat_target, i)
            /\ IsNearest(ds.longitude, last.lon_target, j)
            /\ IsCellSeries(last.datos_celsius, i, j, -KELVIN_OFFSET))
  /\ [](SeriesReturned =>
          /\ last.ret.time = ds.valid_time
          /\ \E i \in 0..(Len(ds.latitude) - 1), j \in 0..(Len(ds.longitude) - 1) :
               /\ IsNearest(ds.latitude, last.lat, i)
               /\ IsNearest(ds.longitude, last.lon, j)
               /\ IsCellSeries(last.ret.value, i, j, 0))
  /\ [][last'.op \in {"extraer_serie_temporal", "extract_time_series"}
          => ds' = ds]_vars

\* Madrid (40.4 N, 356.3 E) on the regional ERA5 grid with a gap: 24 hourly
\* values of the cell (40 N, 356 E), 6.55 deg C at midnight
C18_Witness ==
  /\ Extracted
  /\ last.lat_target = 404 /\ last.lon_target = 3563
  /\ ds.longitude = <<3550, 3560, 3570>>
  /\ last.lat_idx = 1 /\ last.lon_idx = 1
  /\ Len(last.datos_celsius) = 24
  /\ ds.t2m[1][2][2] = Num(28160)
  /\ last.datos_celsius[1] = Num(845)
  /\ ds.t2m[2][1][1].nan

HorarioShown == pc = "horario" /\ last.op = "analisis_horario"

\* the samples of the series whose hour is in H
SamplesIn(H) == {t \in 1..Len(ds.valid_time) : ds.valid_time[t] % 24 \in H}

\* part holds exactly the samples T of the series, in time order
IsPartition(part, T) ==
  /\ Len(part.valid_time) = Cardinality(T)
  /\ \A t \in T :
       \E k \in 1..Len(part.valid_time) :
         /\ part.valid_time[k] = ds.valid_time[t]
         /\ part.values[k] = last.madrid_series[t]
  /\ \A k \in 1..(Len(part.valid_time) - 1) :
       part.valid_time[k] < part.valid_time[k + 1]

\* mean is the mean of the valid values of the samples T, NaN without any
IsMeanOf(mean, T) ==
  LET valid == {t \in T : ~last.madrid_series[t].nan}
      v == [t \in 1..Len(last.madrid_series) |-> last.madrid_series[t].val]
  IN IF valid = {} THEN mean.nan
     ELSE IsFrac(mean, SumOver(valid, v), Cardinality(valid))

\* C19: a sample is a day sample iff its hour is in 10..18 and a night sample
\* iff its hour is in 22..23 or 0..6; no sample is both, the samples of the
\* hours 7, 8, 9, 19, 20, 21 are in neither, and each reported mean is the
\* mean of its partition.
C19_DayNightPartition ==
  HorarioShown =>
    /\ IsPartition(last.temp_dia, SamplesIn(10..18))
    /\ IsPartition(last.temp_noche, SamplesIn((22..23) \cup (0..6)))
    /\ \A k \in 1..Len(last.temp_dia.valid_time),
          l \in 1..Len(last.temp_noche.valid_time) :
         last.temp_dia.valid_time[k] # last.temp_noche.valid_time[l]
    /\ \A t \in SamplesIn({7, 8, 9, 19, 20, 21}) :
         /\ \A k \in 1..Len(last.temp_dia.valid_time) :
              last.temp_dia.valid_time[k] # ds.valid_time[t]
         /\ \A l \in 1..Len(last.temp_noche.valid_time) :
              last.temp_noche.valid_time[l] # ds.valid_time[t]
    /\ IsMeanOf(last.valores[1], SamplesIn(10..18))
    /\ IsMeanOf(last.valores[2], SamplesIn((22..23) \cup (0..6)))

\* an hourly day: 9 day samples (10 h to 18 h) and 9 night samples (22 h,
\* 23 h, 0 h to 6 h), 6 samples in neither, the day warmer than the night
C19_Witness ==
  /\ HorarioShown
  /\ Len(ds.valid_time) = 24
  /\ Len(last.temp_dia.valid_time) = 9
  /\ Len(last.temp_noche.valid_time) = 9
  /\ last.temp_dia.valid_time[1] = 10 /\ last.temp_dia.valid_time[9] = 18
  /\ last.temp_noche.valid_time[7] = 6 /\ last.temp_noche.valid_time[8] = 22
  /\ ~last.valores[1].nan /\ ~last.valores[2].nan
  /\ last.valores[1].num * last.valores[2].den
       > last.valores[2].num * last.valores[1].den

\* the spacing of the source grid, the same on both axes
SourceStep == rf_power.latitude[2] - rf_power.latitude[1]

\* C20: inside the source grid's range the interpolated value is the
\* bilinear weighted average of the four source nodes around the target
\* (whichever surrounding cell is taken where the target lies on a grid
\* line); a target that is a source node gets exactly that node's value, and
\* a grid interpolated onto its own axes is returned unchanged.
C20_Bilinear ==
  Correlated =>
    LET F == rf_power.rf_power_density
        lats == rf_power.latitude
        lons == rf_power.longitude
        area == SourceStep * SourceStep
    IN /\ \A c \in 1..Len(last.rf_flat) :
            \A i \in 1..(Len(lats) - 1), j \in 1..(Len(lons) - 1) :
              /\ lats[i] <= TargetLat(c) /\ TargetLat(c) <= lats[i + 1]
              /\ lons[j] <= TargetLon(c) /\ TargetLon(c) <= lons[j + 1]
              => /\ ~last.rf_flat[c].nan
                 /\ last.rf_flat[c].val =
                      F[i][j] * (lats[i + 1] - TargetLat(c)) * (lons[j + 1] - TargetLon(c))
                      + F[i][j + 1] * (lats[i + 1] - TargetLat(c)) * (TargetLon(c) - lons[j])
                      + F[i + 1][j] * (TargetLat(c) - lats[i]) * (lons[j + 1] - TargetLon(c))
                      + F[i + 1][j + 1] * (TargetLat(c) - lats[i]) * (TargetLon(c) - lons[j])
       /\ \A c \in 1..Len(last.rf_flat) :
            \A i \in 1..Len(lats), j \in 1..Len(lons) :
              TargetLat(c) = lats[i] /\ TargetLon(c) = lons[j]
                => last.rf_flat[c] = Num(F[i][j] * area)
       /\ ds.latitude = lats /\ ds.longitude = lons =>
            \A c \in 1..Len(last.rf_flat) :
              last.rf_flat[c] = Num(Flatten(F)[c] * area)

\* the grid of resolution 90 degrees holding Madrid and Getafe in the cell
\* (0 N, 0 E), interpolated onto its own axes: cell 8 keeps the value 12
C20_Witness ==
  /\ Correlated
  /\ ds.latitude = rf_power.latitude /\ ds.longitude = rf_power.longitude
  /\ rf_power.rf_power_density[2][3] = 12
  /\ TargetLat(8) = 0 /\ TargetLon(8) = 0
  /\ last.rf_flat[8] = Num(12 * SourceStep * SourceStep)
  /\ SourceStep = 900

Rasterized ==
  pc \in {"rasterized", "failed"} /\ last.op = "calculate_rf_power_density"

\* C21 as stated: called with a grid resolution that is zero or negative the
\* rasterizer fails with InvalidConfigError; it returns no grid and fails
\* with no other error.
C21_RejectsNonPositiveResolution ==
  Rasterized /\ last.grid_resolution <= 0 =>
    rf_power.kind = "InvalidConfigError"

InventoryLoaded ==
  pc \in {"inventory", "no_inventory"} /\ last.op = "load_rf_inventory"

\* C22 as stated: a table with the columns latitude, longitude and the value
\* column is accepted, whatever optional columns it lacks, and a table
\* without one of the three is refused and never reaches the rasterizer.
C22_ValidatesThreeColumns ==
  InventoryLoaded =>
    /\ {"latitude", "longitude", "power_w"} \subseteq last.columns =>
         pc = "inventory"
    /\ ~({"latitude", "longitude", "power_w"} \subseteq last.columns) =>
         pc = "no_inventory"

\* the figure of tab 4 drawn a second time, for the same dataset, the same
\* variables and the same time index
Redrawn ==
  pc = "reshown" /\ last.op = "create_heatmap_correlation"

\* C23 as stated: two calls of create_heatmap_correlation with equal
\* arguments return equal figures (the same matrix, the same layout),
\* whatever the module-level theme is at each call.
C23_PureOfArguments ==
  Redrawn =>
    /\ last.ret = last.before.ret
    /\ last.template = last.before.template

\* the engine calls of the claim: the rasterizer, the correlation (which
\* interpolates), and the analyzer's summary, gradient and extremes
EngineOps ==
  {"calculate_rf_power_density", "analyze_correlation", "calculate_statistics",
   "calculate_spatial_gradient", "find_extreme_points"}

GridTotal ==
  SumOver(Cells, [c \in Cells |-> rf_power.rf_power_density[c[1]][c[2]]])

\* the total of power_w / (area_km2 * 1e6) over the rows of the inventory
InputTotal ==
  SumOver(1..Len(df), [k \in 1..Len(df) |-> Contribution(df[k])])

\* C25: a rasterized grid conserves its input: every row of the inventory,
\* a duplicate or a point outside the grid's bounds included, resolves to
\* exactly one cell, and the total over all cells equals the total
\* contribution of all rows.
C25_ConservesInput ==
  pc = "rasterized" =>
    /\ \A k \in 1..Len(df) :
         Cardinality({c \in Cells : k \in RowsAt(c[1], c[2])}) = 1
    /\ GridTotal = InputTotal

\* C25 witness: the same source twice, at longitude 356.3 beyond the grid's
\* last column at 180 or 270: the grid's total is 10e-6
C25_Witness ==
  /\ pc = "rasterized"
  /\ Len(df) >= 2
  /\ df[1] = df[2]
  /\ df[1].longitude > rf_power.longitude[Len(rf_power.longitude)]
  /\ GridTotal = 2 * Contribution(df[1])
  /\ InputTotal >= 10

\* the flat indices (1-based) of the cells at a record's coordinates
CellsOf(r) ==
  {k \in 1..Len(ExtremeValues) :
     <<TargetLat(k), TargetLon(k)>> = <<r.latitude, r.longitude>>}

\* C26 as stated: for a field with some NaN cells and more than n valid
\* cells, no record returned by find_extreme_points (max or min) has a NaN
\* value, and every record comes from a valid cell.
C26_NaNAware ==
  /\ ExtremesCalled
  /\ 1 <= last.n_points
  /\ last.n_points < Cardinality(ValidCells)
  /\ Cardinality(ValidCells) < Len(ExtremeValues)
  => /\ last.ret.kind = "DataFrame"
     /\ \A r \in last.ret.max_points \cup last.ret.min_points :
          ~r.value.nan /\ CellsOf(r) \subseteq ValidCells

\* the flat indices of the cells a group of records came from
SelectedCells(group) == UNION {CellsOf(r) : r \in group}

\* among the cells holding a record's value, those selected come first in
\* row-major order
FirstAmongEqual(group) ==
  \A a \in SelectedCells(group), b \in (1..Len(ExtremeValues)) \ SelectedCells(group) :
    ~ExtremeValues[a].nan /\ ExtremeValues[a] = ExtremeValues[b] => a < b

\* C27 as stated: when several cells hold equal values and only some of them
\* fit among the n largest (or n smallest), find_extreme_points selects the
\* cells that come first in the flattened (row-major) order.
C27_TiesByEncounterOrder ==
  ExtremesCalled /\ last.ret.kind = "DataFrame" /\ last.n_points >= 1 =>
    /\ FirstAmongEqual(last.ret.max_points)
    /\ FirstAmongEqual(last.ret.min_points)

\* the field find_extreme_points looks at, by row and column
ExtremeField == IF HasTime(ds) THEN MeanOverTime(ds) ELSE ds.t2m

\* C28: every record of find_extreme_points reports the coordinates of the
\* cell it came from: the field's value at the cell with the reported
\* latitude and longitude is the reported value, on a grid of three latitudes
\* and four longitudes.
C28_CoordinatesOfCell ==
  ExtremesCalled /\ last.ret.kind = "DataFrame" =>
    \A r \in last.ret.max_points \cup last.ret.min_points :
      \E i \in 1..Len(ds.latitude), j \in 1..Len(ds.longitude) :
        /\ ds.latitude[i] = r.latitude
        /\ ds.longitude[j] = r.longitude
        /\ ExtremeField[i][j] = r.value

\* C28 witness: on the 3 x 4 grid the two largest and the two smallest cells
\* are returned, one of them the third cell of the second row at its own
\* latitude and longitude
C28_Witness ==
  /\ ExtremesCalled
  /\ last.ret.kind = "DataFrame"
  /\ last.n_points = 2
  /\ Len(ds.latitude) # Len(ds.longitude)
  /\ \E r \in last.ret.max_points \cup last.ret.min_points :
       /\ r.latitude = ds.latitude[2]
       /\ r.longitude = ds.longitude[3]
       /\ ~r.value.nan
       /\ r.value = ExtremeField[2][3]

RegionSelected == pc = "region" /\ last.op = "region"

\* the signed equivalents of a longitude of [0, 360): 180 is also -180
SignedEquivalents(lon) ==
  {LonNormal(lon)} \cup (IF lon = HALF_TURN THEN {-HALF_TURN} ELSE {})

\* the longitudes of the grid with a signed equivalent in the selected region
InRegion ==
  {last.longitude[k] : k \in {c \in 1..Len(last.longitude) :
     \E e \in SignedEquivalents(last.longitude[c]) :
       last.lon_min <= e /\ e <= last.lon_max}}

CroppedLons ==
  {last.ds_cropped.longitude[k] : k \in 1..Len(last.ds_cropped.longitude)}

\* C29 as stated: for every region lon_min <= lon_max in signed degrees, one
\* that crosses the prime meridian included, the cropped dataset holds exactly
\* the longitudes of the [0, 360) grid whose signed equivalent lies in
\* [lon_min, lon_max], and holds some whenever the grid has such longitudes.
C29_CropsSignedRegion ==
  RegionSelected =>
    /\ CroppedLons = InRegion
    /\ InRegion # {} => last.ds_cropped.longitude # <<>>

MapShown == pc = "shown" /\ last.op = "create_spatial_map"

\* C30 as stated: the latitude and longitude names are resolved by priority
\* (latitude, lat; longitude, lon), and the map of a dataset whose axes are
\* named lat and lon is the map of the same data with axes named latitude
\* and longitude.
C30_ResolvedNamesUsed ==
  MapShown =>
    /\ last.lat_dim \in last.dims /\ last.lon_dim \in last.dims
    /\ last.ret = [kind |-> "Figure", z |-> ds[last.variable],
                   x |-> ds.longitude, y |-> ds.latitude, template |-> theme]
====
